---- MODULE Spec2Model ----
(***************************************************************************)
(* ALLOSAUR accumulator: Server (add / delete / quick_delete / witness /   *)
(* update), User (new / create_witness / update / membership proof), the   *)
(* Shamir layer and the membership proof of src/src.                        *)
(*                                                                         *)
(* Representation.  The scalar field of the pairing curve is modelled by   *)
(* the prime field Z_P.  G1, G2 and Gt are cyclic of order P: a G1 point   *)
(* is written by its discrete logarithm to the base P1, a G2 point by its  *)
(* logarithm to the base P2, and pair(a, b) is the product of logarithms   *)
(* (Gt is written additively, as the code does).  A Merlin transcript hash *)
(* is collision free: a challenge is the transcript it was derived from,   *)
(* two challenges are equal iff their transcripts are, and its scalar      *)
(* value (used in group arithmetic) is a reduction of the transcript mod P.*)
(* A panic (unwrap / expect / index out of range / division by zero) ends  *)
(* the call with the result "abort" and no effect on the state.            *)
(***************************************************************************)
EXTENDS Integers, Sequences, FiniteSets, TLC

\* ------------------------------------------------------------ bounds
MaxId == 1
MaxDel == 4
MaxUsers == 1
MaxServers == 4
MaxSeed == 1
MaxBatch == 3
Slices == 2
MaxShares == 3

\* ------------------------------------------------------------ scalar field
P == 7
Scalars == 0 .. (P - 1)
NonZero == 1 .. (P - 1)

FAdd(a, b) == (a + b) % P
FSub(a, b) == (a + P - b) % P
FMul(a, b) == (a * b) % P
FNeg(a) == (P - a) % P

InvTable == [a \in NonZero |-> CHOOSE b \in NonZero : (a * b) % P = 1]

\* Scalar::invert() of a non-zero scalar (of zero it is None: the callers
\* unwrap, and guard on IsZero before they use FInv)
FInv(a) == InvTable[a]
IsZero(a) == a = 0

\* Scalar::from(u64)
FromInt(i) == i % P

\* ------------------------------------------------------------ AccParams
\* logarithms of the fixed generators (G1 to the base P1, G2 to the base P2)
ParamP1 == 1
ParamK0 == 2
ParamK1 == 3
ParamX1 == 4
ParamY1 == 5
ParamZ1 == 6
ParamP2 == 1
ParamK2 == 2

\* e : G1 x G2 -> Gt
pair(a, b) == FMul(a, b)

\* ------------------------------------------------------------ sequences
Last(s) == s[Len(s)]
SeqMin(a, b) == IF a < b THEN a ELSE b

RECURSIVE SumTo(_, _)
\* sum over i in 1..n of f[i] in the field
SumTo(f, n) == IF n = 0 THEN 0 ELSE FAdd(SumTo(f, n - 1), f[n])

RECURSIVE ProdTo(_, _)
ProdTo(f, n) == IF n = 0 THEN 1 ELSE FMul(ProdTo(f, n - 1), f[n])

\* ------------------------------------------------------------ Server
\* Option values: None and Some(v)
None == [ some |-> FALSE, val |-> 0 ]
Some(v) == [ some |-> TRUE, val |-> v ]

ServerNew(alpha, s_m, v) ==
    [ accumulators    |-> << FMul(ParamP1, v) >>,
      wit_secret_key  |-> alpha,
      sign_secret_key |-> s_m,
      public_keys     |-> [ witness_key |-> FMul(ParamP2, alpha),
                            sign_key    |-> FMul(ParamK2, s_m) ],
      all_users       |-> {},
      all_witnesses   |-> << >>,
      deletions       |-> << >> ]

get_epoch(srv) == Len(srv.accumulators)
get_accumulator(srv) == Last(srv.accumulators)
get_public_keys(srv) == srv.public_keys

HasWitness(srv, y) == y \in DOMAIN srv.all_witnesses

\* Server::add panics (invert().unwrap()) when y + alpha = 0
AddPanics(srv, y) ==
    /\ ~HasWitness(srv, y)
    /\ IsZero(FAdd(y, srv.wit_secret_key))

\* an add that stores a fresh witness even when one is stored already
AddAgain(srv, y) ==
    LET wit == FMul(get_accumulator(srv), FInv(FAdd(y, srv.wit_secret_key)))
    IN  [ srv |-> [ srv EXCEPT
                      !.all_users = @ \cup {y},
                      !.all_witnesses =
                          [ z \in (DOMAIN @) \cup {y} |->
                              IF z = y THEN wit ELSE @[z] ] ],
          out |-> Some(wit) ]

\* Server::add: [srv: the server afterwards, out: the returned Option]
ServerAdd(srv, y) ==
    IF HasWitness(srv, y)
    THEN [ srv |-> srv, out |-> None ]
    ELSE LET wit == FMul(get_accumulator(srv), FInv(FAdd(y, srv.wit_secret_key)))
         IN  [ srv |-> [ srv EXCEPT
                           !.all_users = @ \cup {y},
                           !.all_witnesses =
                               [ z \in (DOMAIN @) \cup {y} |->
                                   IF z = y THEN wit ELSE @[z] ] ],
               out |-> Some(wit) ]

\* a delete that leaves the surviving witnesses as they are
KeepWitness(other_witness, new_accumulator, user_id, other_y) == other_witness

\* the rewrite of one surviving witness in Server::delete
DeleteRewrite(other_witness, new_accumulator, user_id, other_y) ==
    FMul(FSub(other_witness, new_accumulator), FInv(FSub(user_id, other_y)))

\* Server::delete
ServerDelete(srv, user_id) ==
    IF ~HasWitness(srv, user_id)
    THEN [ srv |-> srv, out |-> None ]
    ELSE LET new_accumulator == srv.all_witnesses[user_id]
             rest == (DOMAIN srv.all_witnesses) \ {user_id}
         IN  [ srv |-> [ srv EXCEPT
                           !.accumulators = Append(@, new_accumulator),
                           !.all_witnesses =
                               [ z \in rest |->
                                   DeleteRewrite(@[z], new_accumulator, user_id, z) ],
                           !.deletions = Append(@, user_id) ],
               out |-> Some(new_accumulator) ]

\* a quick_delete that does not log the deletion
QuickDeleteUnlogged(srv, y) ==
    IF ~HasWitness(srv, y)
    THEN [ srv |-> srv, out |-> None ]
    ELSE LET new_accumulator ==
                 FMul(get_accumulator(srv), FInv(FAdd(y, srv.wit_secret_key)))
             rest == (DOMAIN srv.all_witnesses) \ {y}
         IN  [ srv |-> [ srv EXCEPT
                           !.accumulators = Append(@, new_accumulator),
                           !.all_witnesses = [ z \in rest |-> @[z] ] ],
               out |-> Some(new_accumulator) ]

\* Server::quick_delete panics when y + alpha = 0 (unreachable for a stored y)
ServerQuickDelete(srv, y) ==
    IF ~HasWitness(srv, y)
    THEN [ srv |-> srv, out |-> None ]
    ELSE LET new_accumulator ==
                 FMul(get_accumulator(srv), FInv(FAdd(y, srv.wit_secret_key)))
             rest == (DOMAIN srv.all_witnesses) \ {y}
         IN  [ srv |-> [ srv EXCEPT
                           !.accumulators = Append(@, new_accumulator),
                           !.all_witnesses = [ z \in rest |-> @[z] ],
                           !.deletions = Append(@, y) ],
               out |-> Some(new_accumulator) ]

\* ------------------------------------------------------------ transcripts
\* A Merlin transcript: its domain label and the messages appended, in order.
Transcript(label, msgs) == [ label |-> label, msgs |-> msgs ]

RECURSIVE Mix(_, _)
Mix(msgs, n) == IF n = 0 THEN 0 ELSE (Mix(msgs, n - 1) * 3 + msgs[n] + n) % P

\* Element::from_transcript: the challenge is identified with its transcript
\* (collision freeness); ChallengeScalar is the scalar it denotes.
from_transcript(tr) == tr
ChallengeScalar(ch) == Mix(ch.msgs, Len(ch.msgs))

\* the byte strings appended to a transcript: the compressed encoding of a G1
\* point (to_bytes and to_compressed of a G1 point are the same 48 bytes), the
\* encodings of a G2 point and of a Gt element, and the ephemeral challenge
to_compressed(p) == P + p
to_bytes(p) == to_compressed(p)
G2Bytes(q) == 2 * P + q
GtBytes(g) == 3 * P + g
EphemeralBytes(e) == 4 * P + e

\* ------------------------------------------------------------ Server::witness
\* a check that agrees with whatever challenge it is given
SchnorrAgrees(challenge, response, user_pub_key) == challenge

\* the Schnorr check of Server::witness
SchnorrCheck(challenge, response, user_pub_key) ==
    from_transcript(Transcript("user_signature_proof",
        << to_bytes(user_pub_key),
           to_bytes(FAdd(FMul(ParamK1, response),
                         FMul(user_pub_key, ChallengeScalar(challenge)))) >>))

\* Server::witness panics (expect "to not be zero") when y + s_m = 0
WitnessPanics(srv, y, challenge, response, user_pub_key) ==
    /\ HasWitness(srv, y)
    /\ SchnorrCheck(challenge, response, user_pub_key) = challenge
    /\ IsZero(FAdd(y, srv.sign_secret_key))

\* Server::witness: None, or Some of the pair (C, R)
NoPair == [ some |-> FALSE, witness |-> 0, signature |-> 0 ]

ServerWitness(srv, y, challenge, response, user_pub_key) ==
    IF ~HasWitness(srv, y)
    THEN NoPair
    ELSE IF SchnorrCheck(challenge, response, user_pub_key) # challenge
    THEN NoPair
    ELSE LET acc_witness == srv.all_witnesses[y]
             signature == FMul(FAdd(user_pub_key, ParamK0),
                               FInv(FAdd(y, srv.sign_secret_key)))
         IN  [ some |-> TRUE, witness |-> acc_witness, signature |-> signature ]

\* ------------------------------------------------------------ Witness::verify
\* a verification that leaves out the pairing check against the accumulator
no_first_check(accumulator, public_keys, y, witness) == TRUE

first_check(accumulator, public_keys, y, witness) ==
    pair(witness.witness, FAdd(FMul(ParamP2, y), public_keys.witness_key))
        = pair(accumulator, ParamP2)

second_check(public_keys, y, witness) ==
    pair(witness.signature, FAdd(FMul(ParamK2, y), public_keys.sign_key))
        = pair(FAdd(FMul(ParamK1, witness.secret_key), ParamK0), ParamK2)

\* Witness::verify: TRUE for Ok(()), FALSE for Err("failed")
WitnessVerify(accumulator, public_keys, y, witness) ==
    first_check(accumulator, public_keys, y, witness)
        /\ second_check(public_keys, y, witness)

\* ------------------------------------------------------------ membership proof
\* schnorr(k, x, c): the response to the challenge c for the secret x
schnorr(k, x, c) == FAdd(k, FMul(c, x))

\* MembershipProofCommitting::new; rand holds the scalars drawn: r[0..2], k[0..7]
MembershipProofCommitting(witness, public_keys, rand) ==
    LET r == rand.r
        k == rand.k
        u_1 == FAdd(witness.signature, FMul(ParamZ1, r[0]))
        u_2 == FAdd(witness.witness, FMul(ParamZ1, r[1]))
        r_point == FAdd(FAdd(FMul(ParamX1, r[0]), FMul(ParamY1, r[1])),
                        FMul(ParamZ1, r[2]))
        t_1 == FAdd(FAdd(FMul(ParamX1, k[1]), FMul(ParamY1, k[2])),
                    FMul(ParamZ1, k[3]))
        t_2 == FSub(FAdd(FAdd(FMul(ParamX1, k[4]), FMul(ParamY1, k[5])),
                         FMul(ParamZ1, k[6])),
                    FMul(r_point, k[7]))
        pi_1 == FAdd(pair(FSub(FMul(ParamK1, k[0]), FMul(u_1, k[7])), ParamK2),
                     pair(ParamZ1,
                          FAdd(FMul(ParamK2, k[4]),
                               FMul(public_keys.sign_key, k[1]))))
        pi_2 == FAdd(pair(FSub(FMul(ParamZ1, k[5]), FMul(u_2, k[7])), ParamP2),
                     pair(ParamZ1, FMul(public_keys.witness_key, k[2])))
    IN  [ r |-> r, k |-> k, u_1 |-> u_1, u_2 |-> u_2, r_point |-> r_point,
          t_1 |-> t_1, t_2 |-> t_2, pi_1 |-> pi_1, pi_2 |-> pi_2 ]

\* MembershipProofCommitting::get_bytes_for_challenge: the messages appended
mpc_get_bytes_for_challenge(mpc) ==
    << to_compressed(mpc.u_1), to_compressed(mpc.u_2), to_compressed(mpc.r_point),
       to_compressed(mpc.t_1), to_compressed(mpc.t_2),
       GtBytes(mpc.pi_1), GtBytes(mpc.pi_2) >>

\* a prover that answers s_7 for the blinded identifier r[0]*y
gen_proof_wrong_s7(mpc, witness, user_id, challenge) ==
    LET c == ChallengeScalar(challenge)
    IN  [ u_1 |-> mpc.u_1, u_2 |-> mpc.u_2, r |-> mpc.r_point,
          challenge |-> challenge,
          s_0 |-> schnorr(mpc.k[0], witness.secret_key, c),
          s_1 |-> schnorr(mpc.k[1], mpc.r[0], c),
          s_2 |-> schnorr(mpc.k[2], mpc.r[1], c),
          s_3 |-> schnorr(mpc.k[3], mpc.r[2], c),
          s_4 |-> schnorr(mpc.k[4], FMul(mpc.r[0], user_id), c),
          s_5 |-> schnorr(mpc.k[5], FMul(mpc.r[1], user_id), c),
          s_6 |-> schnorr(mpc.k[6], FMul(mpc.r[2], user_id), c),
          s_7 |-> schnorr(mpc.k[7], FMul(mpc.r[0], user_id), c) ]

\* MembershipProofCommitting::gen_proof
gen_proof(mpc, witness, user_id, challenge) ==
    LET c == ChallengeScalar(challenge)
    IN  [ u_1 |-> mpc.u_1, u_2 |-> mpc.u_2, r |-> mpc.r_point,
          challenge |-> challenge,
          s_0 |-> schnorr(mpc.k[0], witness.secret_key, c),
          s_1 |-> schnorr(mpc.k[1], mpc.r[0], c),
          s_2 |-> schnorr(mpc.k[2], mpc.r[1], c),
          s_3 |-> schnorr(mpc.k[3], mpc.r[2], c),
          s_4 |-> schnorr(mpc.k[4], FMul(mpc.r[0], user_id), c),
          s_5 |-> schnorr(mpc.k[5], FMul(mpc.r[1], user_id), c),
          s_6 |-> schnorr(mpc.k[6], FMul(mpc.r[2], user_id), c),
          s_7 |-> schnorr(mpc.k[7], user_id, c) ]

\* AccParams::add_to_transcript
add_to_transcript ==
    << to_bytes(ParamK1), to_bytes(ParamX1), to_bytes(ParamY1), to_bytes(ParamZ1) >>

\* the commitment to the public parameters both sides start the transcript with
PublicMessages(public_keys, accumulator) ==
    << G2Bytes(public_keys.witness_key), G2Bytes(public_keys.sign_key),
       to_bytes(accumulator) >> \o add_to_transcript

\* Witness::make_membership_proof: None, or Some of the proof
Witness_make_membership_proof(witness, user_id, accumulator, public_keys, ephemeral_challenge, rand) ==
    IF ~WitnessVerify(accumulator, public_keys, user_id, witness)
    THEN None
    ELSE LET mpc == MembershipProofCommitting(witness, public_keys, rand)
             challenge == from_transcript(Transcript("basic_membership_proof",
                 PublicMessages(public_keys, accumulator)
                     \o mpc_get_bytes_for_challenge(mpc)
                     \o << EphemeralBytes(ephemeral_challenge) >>))
         IN  Some(gen_proof(mpc, witness, user_id, challenge))

\* the points t_1, t_2, pi_1, pi_2 the verifier reconstructs from a proof
Reconstruct(proof, public_keys, accumulator) ==
    LET c == ChallengeScalar(proof.challenge)
    IN  [ t_1 |-> FSub(FAdd(FAdd(FMul(ParamX1, proof.s_1), FMul(ParamY1, proof.s_2)),
                           FMul(ParamZ1, proof.s_3)),
                      FMul(proof.r, c)),
          t_2 |-> FSub(FAdd(FAdd(FMul(ParamX1, proof.s_4), FMul(ParamY1, proof.s_5)),
                           FMul(ParamZ1, proof.s_6)),
                      FMul(proof.r, proof.s_7)),
          pi_1 |-> FAdd(pair(FAdd(FAdd(FSub(FMul(ParamK1, proof.s_0),
                                            FMul(proof.u_1, proof.s_7)),
                                       FMul(ParamZ1, proof.s_4)),
                                  FMul(ParamK0, c)),
                             ParamK2),
                        pair(FSub(FMul(ParamZ1, proof.s_1), FMul(proof.u_1, c)),
                             public_keys.sign_key)),
          pi_2 |-> FAdd(pair(FAdd(FAdd(FNeg(FMul(proof.u_2, proof.s_7)),
                                       FMul(ParamZ1, proof.s_5)),
                                  FMul(accumulator, c)),
                             ParamP2),
                        pair(FSub(FMul(ParamZ1, proof.s_2), FMul(proof.u_2, c)),
                             public_keys.witness_key)) ]

\* a verifier that adds R*c to t_1 where the code subtracts it
proof_bytes_wrong_t1(proof, public_keys, accumulator) ==
    LET rec == Reconstruct(proof, public_keys, accumulator)
        t_1 == FAdd(rec.t_1, FMul(2, FMul(proof.r, ChallengeScalar(proof.challenge))))
    IN  << to_bytes(proof.u_1), to_bytes(proof.u_2), to_bytes(proof.r),
           to_bytes(t_1), to_bytes(rec.t_2),
           GtBytes(rec.pi_1), GtBytes(rec.pi_2) >>

\* MembershipProof::get_bytes_for_challenge: the messages appended
proof_get_bytes_for_challenge(proof, public_keys, accumulator) ==
    LET rec == Reconstruct(proof, public_keys, accumulator)
    IN  << to_bytes(proof.u_1), to_bytes(proof.u_2), to_bytes(proof.r),
           to_bytes(rec.t_1), to_bytes(rec.t_2),
           GtBytes(rec.pi_1), GtBytes(rec.pi_2) >>

\* Witness::check_membership_proof
check_membership_proof(proof, public_keys, accumulator, ephemeral_challenge) ==
    from_transcript(Transcript("basic_membership_proof",
        PublicMessages(public_keys, accumulator)
            \o proof_get_bytes_for_challenge(proof, public_keys, accumulator)
            \o << EphemeralBytes(ephemeral_challenge) >>))
        = proof.challenge

\* ------------------------------------------------------------ Shamir layer
RECURSIVE PolyEval(_, _, _)
\* poly.evaluate(x, n): the coefficients of poly from the i-th on, at x (Horner)
PolyEval(poly, x, i) ==
    IF i > Len(poly) THEN 0
    ELSE FAdd(poly[i], FMul(x, PolyEval(poly, x, i + 1)))

\* a split whose polynomial is the constant secret
share_unmasked(threshold, num_shares, secret, rand) ==
    [i \in 1 .. num_shares |-> << FromInt(i), secret >>]

\* shamir_share: rand are the threshold-1 random coefficients of the polynomial;
\* the result is the sequence of (value, share) pairs
shamir_share(threshold, num_shares, secret, rand) ==
    CHOOSE r \in
        { [i \in 1 .. num_shares |-> << FromInt(i), PolyEval(poly, FromInt(i), 1) >>] :
          poly \in { [i \in 1 .. threshold |->
                        IF i = 1 THEN secret ELSE rand[i - 1]] } } : TRUE

\* coefficients that never come with check coefficients
UncheckedCoefficients(threshold, xs) ==
    [ coefficients |->
          [i \in 1 .. threshold |->
              FMul(ProdTo([j \in 1 .. threshold |-> xs[j]], threshold),
                   ProdTo([ii \in 1 .. threshold |->
                              IF i = ii THEN FInv(xs[i])
                              ELSE FInv(FSub(xs[ii], xs[i]))], threshold))],
      check |-> [ some |-> FALSE, val |-> << >> ] ]

\* shamir_coefficients on the evaluation points xs of the shares (xs[i + 1] is
\* shares[i].0): [coefficients, check_coefficients (None without an extra share)]
shamir_coefficients(threshold, xs) ==
    LET product == ProdTo([j \in 1 .. threshold |-> xs[j]], threshold)
        coefficients ==
            [i \in 1 .. threshold |->
                FMul(product,
                     ProdTo([ii \in 1 .. threshold |->
                                IF i = ii THEN FInv(xs[i])
                                ELSE FInv(FSub(xs[ii], xs[i]))], threshold))]
        adjustment == FMul(xs[threshold + 1], FInv(xs[1]))
        check_coefficients ==
            [i \in 1 .. threshold |->
                IF i = 1
                THEN FMul(FMul(product, xs[1]),
                          ProdTo([j \in 1 .. (threshold - 1) |->
                                     FInv(FSub(xs[j + 1], xs[threshold + 1]))],
                                 threshold - 1))
                ELSE FMul(coefficients[i],
                          FMul(FMul(adjustment, FSub(xs[1], xs[i])),
                               FInv(FSub(xs[threshold + 1], xs[i]))))]
    IN  [ coefficients |-> coefficients,
          check |-> IF Len(xs) > threshold
                    THEN [ some |-> TRUE, val |-> check_coefficients ]
                    ELSE [ some |-> FALSE, val |-> << >> ] ]

\* a rebuild that leaves out the last of the threshold shares
rebuild_scalar_short(vals, coefficients, check_coefficients) ==
    Some(SumTo([i \in 1 .. (Len(coefficients) - 1) |->
                  FMul(vals[i], coefficients[i])], Len(coefficients) - 1))

\* shamir_rebuild_scalar on the share values vals (vals[i + 1] is shares[i].1):
\* None when the check coefficients disagree
shamir_rebuild_scalar(vals, coefficients, check_coefficients) ==
    LET threshold == Len(coefficients)
        result == SumTo([i \in 1 .. threshold |-> FMul(vals[i], coefficients[i])],
                        threshold)
    IN  IF ~check_coefficients.some
        THEN Some(result)
        ELSE LET check_result ==
                     SumTo([i \in 1 .. threshold |->
                              IF i = 1
                              THEN FMul(check_coefficients.val[1], vals[threshold + 1])
                              ELSE FMul(check_coefficients.val[i], vals[i])],
                           threshold)
             IN  IF check_result = result
                 THEN Some(result)
                 ELSE None

\* shamir_rebuild_point: the same sums on G1 points
shamir_rebuild_point(pts, coefficients, check_coefficients) ==
    LET threshold == Len(coefficients)
        result == SumTo([i \in 1 .. threshold |-> FMul(pts[i], coefficients[i])],
                        threshold)
    IN  IF ~check_coefficients.some
        THEN Some(result)
        ELSE LET check_result ==
                     SumTo([i \in 1 .. threshold |->
                              IF i = 1
                              THEN FMul(pts[threshold + 1], check_coefficients.val[1])
                              ELSE FMul(pts[i], check_coefficients.val[i])],
                           threshold)
             IN  IF check_result = result
                 THEN Some(result)
                 ELSE None

\* ------------------------------------------------------------ Polynomial
\* Polynomial *= &[c, m]: the product with the two-term factor c + m*x
\* (coefficients from the constant term up)
PolyMulLinear(p, c, m) ==
    [i \in 1 .. (Len(p) + 1) |->
        FAdd(IF i <= Len(p) THEN FMul(c, p[i]) ELSE 0,
             IF i >= 2 THEN FMul(m, p[i - 1]) ELSE 0)]

RECURSIVE v_polys_swapped(_, _)
\* the polynomials when d_poly is multiplied by the factor [m1, deletion]
v_polys_swapped(dels, n) ==
    IF n = 0 THEN << << 1 >> >>
    ELSE CHOOSE r \in
            { Append(ps, PolyMulLinear(ps[n], FNeg(1), dels[n])) :
              ps \in { v_polys_swapped(dels, n - 1) } } : TRUE

RECURSIVE v_polys(_, _)
\* the polynomials d_poly runs through over the first n deletions of a chunk:
\* v_polys[i] is prod_{j < i} (deletion_j - x), the last one is the final d_poly
v_polys(dels, n) ==
    IF n = 0 THEN << << 1 >> >>
    ELSE CHOOSE r \in
            { Append(ps, PolyMulLinear(ps[n], dels[n], FNeg(1))) :
              ps \in { v_polys(dels, n - 1) } } : TRUE

\* the evaluation without the constant term
EvalNoConstant(poly, y_shares) ==
    SumTo([i \in 1 .. (Len(poly) - 1) |-> FMul(poly[i + 1], y_shares[i])],
          Len(poly) - 1)

\* a polynomial evaluated on the shares of y, y^2, ...:
\* poly.0[0] + sum poly.0[i] * y_shares[i - 1]
EvalOnShares(poly, y_shares) ==
    FAdd(poly[1],
         SumTo([i \in 1 .. (Len(poly) - 1) |-> FMul(poly[i + 1], y_shares[i])],
               Len(poly) - 1))

\* ------------------------------------------------------------ batch algebra
\* Polynomial *= scalar
PolyScale(p, c) == [i \in 1 .. Len(p) |-> FMul(p[i], c)]

\* Polynomial += Polynomial: the shorter left side grows by the terms it lacks
PolyAdd(p, q) ==
    [i \in 1 .. (IF Len(p) >= Len(q) THEN Len(p) ELSE Len(q)) |->
        FAdd(IF i <= Len(p) THEN p[i] ELSE 0, IF i <= Len(q) THEN q[i] ELSE 0)]

\* Polynomial -= Polynomial: the shorter left side grows by the negated terms
PolySub(p, q) ==
    [i \in 1 .. (IF Len(p) >= Len(q) THEN Len(p) ELSE Len(q)) |->
        FSub(IF i <= Len(p) THEN p[i] ELSE 0, IF i <= Len(q) THEN q[i] ELSE 0)]

RECURSIVE LinearProduct(_, _)
\* Polynomial [1] multiplied in turn by the factors [x, -1] for the first n
\* elements of xs: prod (x_j - x)
LinearProduct(xs, n) ==
    IF n = 0 THEN << 1 >>
    ELSE CHOOSE r \in
            { PolyMulLinear(p, xs[n], FNeg(1)) :
              p \in { LinearProduct(xs, n - 1) } } : TRUE

\* SecretKey::batch_additions: prod (y + alpha)
batch_additions(key, additions) ==
    ProdTo([i \in 1 .. Len(additions) |-> FAdd(additions[i], key)],
           Len(additions))

\* the unwrap in SecretKey::batch_deletions panics: the product has no inverse
BatchDeletionsPanics(key, deletions) == IsZero(batch_additions(key, deletions))

\* a batch_deletions that hands back the product itself
batch_deletions_plain(key, deletions) == batch_additions(key, deletions)

\* SecretKey::batch_deletions: prod 1/(y + alpha)
batch_deletions(key, deletions) == FInv(batch_additions(key, deletions))

RECURSIVE v_d_sum(_, _, _)
\* the first loop of create_coefficients over s = 0 .. n-1 (n = 0: the empty
\* Polynomial::with_capacity)
v_d_sum(key, deletions, n) ==
    IF n = 0 THEN << >>
    ELSE CHOOSE r \in
            { PolyAdd(v_d, PolyScale(poly,
                                     batch_deletions(key, SubSeq(deletions, 1, n)))) :
              v_d \in { v_d_sum(key, deletions, n - 1) },
              poly \in { LinearProduct(deletions, n - 1) } } : TRUE

RECURSIVE v_a_sum(_, _, _)
\* the second loop of create_coefficients over s = 0 .. n-1
v_a_sum(key, additions, n) ==
    IF n = 0 THEN << >>
    ELSE CHOOSE r \in
            { PolyAdd(v_a, PolyScale(poly,
                                     IF n = 1 THEN 1
                                     ELSE batch_additions(key,
                                              SubSeq(additions, 1, n - 1)))) :
              v_a \in { v_a_sum(key, additions, n - 1) },
              poly \in { LinearProduct(SubSeq(additions, n + 1, Len(additions)),
                                       Len(additions) - n) } } : TRUE

\* create_coefficients without the term of the deletions
coefficients_of_additions(key, additions, deletions) ==
    v_a_sum(key, additions, Len(additions))

\* SecretKey::create_coefficients: the coefficients of
\* v_A - v_D * prod (a_i + alpha), from the constant term up
create_coefficients(key, additions, deletions) ==
    CHOOSE r \in
        { PolySub(v_a, PolyScale(v_d, batch_additions(key, additions))) :
          v_a \in { v_a_sum(key, additions, Len(additions)) },
          v_d \in { v_d_sum(key, deletions, Len(deletions)) } } : TRUE

\* Accumulator::with_elements
with_elements(key, m) == FMul(ParamP1, batch_additions(key, m))

\* Accumulator::add_assign
add_assign(acc, key, value) == FMul(acc, FAdd(key, value))

\* Accumulator::remove_assign
remove_assign(acc, key, value) == FMul(acc, FInv(FAdd(key, value)))

\* an update_assign that hands out the scalar coefficients as they are
update_assign_unscaled(acc, key, additions, deletions) ==
    [ acc          |-> FMul(acc, FMul(batch_additions(key, additions),
                                      batch_deletions(key, deletions))),
      coefficients |-> CHOOSE r \in
                          { [i \in 1 .. Len(c) |-> FMul(ParamP1, c[i])] :
                            c \in { create_coefficients(key, additions,
                                                        deletions) } } : TRUE ]

\* Accumulator::update_assign: the new accumulator and the coefficients, each
\* a multiple of the accumulator before the call
update_assign(acc, key, additions, deletions) ==
    [ acc          |-> FMul(acc, FMul(batch_additions(key, additions),
                                      batch_deletions(key, deletions))),
      coefficients |-> CHOOSE r \in
                          { [i \in 1 .. Len(c) |-> FMul(acc, c[i])] :
                            c \in { create_coefficients(key, additions,
                                                        deletions) } } : TRUE ]

\* ------------------------------------------------------------ Server::update
\* one pass of the chunk loop of Server::update: the pair (d, v_point) pushed
\* for the chunk starting at del_start, acc_start (the code's 0-based indices)
UpdateChunk(srv, y_shares, del_start, acc_start) ==
    LET k == Len(y_shares) + 1
        stop == SeqMin(del_start + k - 1, Len(srv.deletions))
        len == stop - del_start
    IN  CHOOSE r \in
            { [ d |-> EvalOnShares(polys[len + 1], y_shares),
                v |-> SumTo([i \in 1 .. len |->
                               FMul(srv.accumulators[acc_start + i],
                                    EvalOnShares(polys[i], y_shares))], len) ] :
              polys \in { v_polys([i \in 1 .. len |-> srv.deletions[del_start + i]],
                                  len) } } : TRUE

RECURSIVE UpdateLoop(_, _, _, _, _, _)
\* the chunk loop of Server::update; k >= 2
UpdateLoop(srv, y_shares, del_start, acc_start, ds, vs) ==
    IF del_start >= Len(srv.deletions)
    THEN [ ds |-> ds, vs |-> vs ]
    ELSE CHOOSE r \in
            { UpdateLoop(srv, y_shares,
                         del_start + Len(y_shares), acc_start + Len(y_shares),
                         Append(ds, c.d), Append(vs, c.v)) :
              c \in { UpdateChunk(srv, y_shares, del_start, acc_start) } } : TRUE

\* Server::update never returns: an empty share vector (k = 1) never advances
\* del_start
ServerUpdateHangs(srv, num_epochs, y_shares) ==
    /\ num_epochs <= Len(srv.deletions)
    /\ num_epochs >= 1
    /\ Len(y_shares) = 0

\* an update that pairs each deletion with the accumulator before it
ServerUpdateEarlier(srv, num_epochs, y_shares) ==
    IF num_epochs > Len(srv.deletions)
    THEN [ ds |-> << >>, vs |-> << >> ]
    ELSE UpdateLoop(srv, y_shares,
                    Len(srv.deletions) - num_epochs,
                    Len(srv.accumulators) - num_epochs - 1, << >>, << >>)

\* Server::update: the pair (ds, vs)
ServerUpdate(srv, num_epochs, y_shares) ==
    IF num_epochs > Len(srv.deletions)
    THEN [ ds |-> << >>, vs |-> << >> ]
    ELSE UpdateLoop(srv, y_shares,
                    Len(srv.deletions) - num_epochs,
                    Len(srv.accumulators) - num_epochs, << >>, << >>)

\* ------------------------------------------------------------ User
NoWitness == [ some |-> FALSE, secret_key |-> 0, witness |-> 0, signature |-> 0 ]

\* User::new
UserNew(srv, id) ==
    [ id          |-> id,
      witness     |-> NoWitness,
      accumulator |-> get_accumulator(srv),
      public_keys |-> get_public_keys(srv),
      epoch       |-> get_epoch(srv) ]

\* the Schnorr proof User::create_witness sends: key is the fresh secret key,
\* k the nonce
SchnorrProof(key, k) ==
    LET user_pub_key == FMul(ParamK1, key)
        k_point == FMul(ParamK1, k)
        challenge == from_transcript(
            Transcript("user_signature_proof",
                       << to_bytes(user_pub_key), to_bytes(k_point) >>))
    IN  [ user_pub_key |-> user_pub_key,
          challenge    |-> challenge,
          response     |-> FSub(k, FMul(ChallengeScalar(challenge), key)) ]

\* User::create_witness
create_witness(user, srv, key, k) ==
    LET pr == SchnorrProof(key, k)
        got == ServerWitness(srv, user.id, pr.challenge, pr.response, pr.user_pub_key)
    IN  IF got.some
        THEN [ user EXCEPT
                 !.witness = [ some |-> TRUE, secret_key |-> key,
                               witness |-> got.witness,
                               signature |-> got.signature ],
                 !.epoch = get_epoch(srv),
                 !.accumulator = get_accumulator(srv) ]
        ELSE user

\* User::check_witness: TRUE for Ok(())
check_witness(user, accumulator) ==
    /\ user.witness.some
    /\ WitnessVerify(accumulator, user.public_keys, user.id, user.witness)

\* User::make_membership_proof: the proof is made for the accumulator the
\* user holds
make_membership_proof(user, public_keys, ephemeral_challenge, rand) ==
    IF ~user.witness.some
    THEN None
    ELSE Witness_make_membership_proof(user.witness, user.id, user.accumulator,
                                       public_keys, ephemeral_challenge, rand)

\* ((d as f64) * 2.5).sqrt() as usize
SqrtWindow(d) ==
    CHOOSE k \in 0 .. (2 * d + 1) :
        2 * k * k <= 5 * d /\ 2 * (k + 1) * (k + 1) > 5 * d

\* a window that is never grown
KeepWindow(d, k) == k

RECURSIVE GrowWindow(_, _)
\* while 2 * k < 5 * (d + k - 1) / k { k += 1 }
GrowWindow(d, k) ==
    IF 2 * k < (5 * (d + k - 1)) \div k THEN GrowWindow(d, k + 1) ELSE k

\* the window size k of prepare_for_update, d >= 1
WindowSize(d) == GrowWindow(d, SqrtWindow(d))

RECURSIVE FPow(_, _)
FPow(y, j) == IF j = 0 THEN 1 ELSE FMul(FPow(y, j - 1), y)

\* User::prepare_for_update; rand[j] are the random coefficients drawn for the
\* split of y^j.  d = 0 aborts: d + k - 1 underflows (debug build) or the
\* division by k = 0 panics (release build).
prepare_for_update(user, new_epoch, num_servers, threshold, rand) ==
    LET d == new_epoch - user.epoch
        k == WindowSize(d)
        powers == IF k >= 2 THEN k - 1 ELSE 1
        split == [j \in 1 .. powers |->
                    shamir_share(threshold, num_servers, FPow(user.id, j), rand[j])]
        empty == [ res |-> "", epoch_diff |-> 0, y_shares |-> << >>, y_values |-> << >> ]
    IN  IF num_servers < threshold
        THEN [ empty EXCEPT !.res = "invalid threshold" ]
        ELSE IF threshold <= 1
        THEN [ empty EXCEPT !.res = "invalid threshold" ]
        ELSE IF d <= 0
        THEN [ empty EXCEPT !.res = "abort" ]
        ELSE [ res        |-> "Ok",
               epoch_diff |-> d,
               y_shares   |-> [s \in 1 .. num_servers |->
                                 [j \in 1 .. powers |-> split[j][s][2]]],
               y_values   |-> [s \in 1 .. num_servers |-> split[1][s][1]] ]

RECURSIVE PostLoop(_, _, _, _, _, _)
\* the chunk loop of User::post_update, at chunk i with the witness so far
PostLoop(i, new_witness, y_values, dvs, coefficients, check_coefficients) ==
    LET n == Len(y_values)
        d_rebuilt == shamir_rebuild_scalar([s \in 1 .. n |-> dvs[s].ds[i]],
                                           coefficients, check_coefficients)
        v_rebuilt == shamir_rebuild_point([s \in 1 .. n |-> dvs[s].vs[i]],
                                          coefficients, check_coefficients)
    IN  IF i > Len(dvs[1].ds)
        THEN [ res |-> "Ok", witness |-> new_witness ]
        ELSE IF ~d_rebuilt.some
        THEN [ res |-> "malicious server", witness |-> 0 ]
        ELSE IF IsZero(d_rebuilt.val)
        THEN [ res |-> "user has been deleted", witness |-> 0 ]
        ELSE IF ~v_rebuilt.some
        THEN [ res |-> "malicious server", witness |-> 0 ]
        ELSE PostLoop(i + 1,
                      FMul(FSub(new_witness, v_rebuilt.val), FInv(d_rebuilt.val)),
                      y_values, dvs, coefficients, check_coefficients)

\* User::post_update on answers of equal lengths; no chunk at all aborts
\* (d_chunks_shares[0] is out of range)
post_update(old_witness, threshold, y_values, dvs) ==
    IF Len(dvs[1].ds) = 0
    THEN [ res |-> "abort", witness |-> 0 ]
    ELSE CHOOSE r \in
            { PostLoop(1, old_witness, y_values, dvs, co.coefficients, co.check) :
              co \in { shamir_coefficients(threshold, y_values) } } : TRUE

\* ------------------------------------------------------------ replicas
\* What replica s answers: the honest Server::update, or, for the one replica
\* cor names, that answer with one entry shifted by cor.delta.
NoCorruption == [ srv |-> 0, vec |-> "ds", chunk |-> 0, delta |-> 0 ]

Answer(srv, s, num_epochs, y_shares, cor) ==
    LET honest == ServerUpdate(srv, num_epochs, y_shares)
    IN  IF cor.srv # s \/ cor.chunk > Len(honest.ds)
        THEN honest
        ELSE IF cor.vec = "ds"
        THEN [ honest EXCEPT !.ds[cor.chunk] = FAdd(@, cor.delta) ]
        ELSE [ honest EXCEPT !.vs[cor.chunk] = FAdd(@, cor.delta) ]

\* what User::update does once post_update returned Ok
AdoptUpdate(user, srv, new_witness) ==
    [ user EXCEPT !.witness.witness = new_witness,
                  !.accumulator = get_accumulator(srv) ]

\* the answers of the replicas to one prepared request
Answers(srv, num_servers, prep, cor) ==
    [s \in 1 .. num_servers |->
        Answer(srv, s, prep.epoch_diff, prep.y_shares[s], cor)]

\* an update that adopts the server's accumulator whatever post_update returned
UpdateEager(user, srv, num_servers, threshold, prep, cor) ==
    IF prep.res # "Ok"
    THEN [ res |-> prep.res, user |-> user ]
    ELSE CHOOSE r \in
            { [ res |-> post.res, user |-> AdoptUpdate(user, srv, post.witness) ] :
              post \in { post_update(user.witness.witness, threshold,
                                     prep.y_values, dvs) :
                         dvs \in { Answers(srv, num_servers, prep, cor) } } } : TRUE

\* User::update after prepare_for_update returned prep
UpdateWith(user, srv, num_servers, threshold, prep, cor) ==
    IF prep.res # "Ok"
    THEN [ res |-> prep.res, user |-> user ]
    ELSE CHOOSE r \in
            { IF post.res # "Ok"
              THEN [ res |-> post.res, user |-> user ]
              ELSE [ res |-> "Ok", user |-> AdoptUpdate(user, srv, post.witness) ] :
              post \in { post_update(user.witness.witness, threshold,
                                     prep.y_values, dvs) :
                         dvs \in { Answers(srv, num_servers, prep, cor) } } } : TRUE

\* User::update against num_servers replicas of srv:
\* [res: Ok or the error, user: the user afterwards]; with no replica at all
\* servers[0] is out of range
\* (the singleton sets make TLC compute each intermediate value once)
update(user, srv, num_servers, threshold, rand, cor) ==
    IF ~user.witness.some
    THEN [ res |-> "No witness", user |-> user ]
    ELSE IF num_servers = 0
    THEN [ res |-> "abort", user |-> user ]
    ELSE CHOOSE r \in
            { UpdateWith(user, srv, num_servers, threshold, prep, cor) :
              prep \in { prepare_for_update(user, get_epoch(srv), num_servers,
                                            threshold, rand) } } : TRUE

\* ------------------------------------------------------------ batch witness
\* PublicKey::from(&SecretKey)
PublicKeyFrom(key) == FMul(ParamP2, key)

\* MembershipWitness::new(y, acc, key): acc * 1/(y + alpha), None when
\* y + alpha has no inverse
MembershipWitnessNew(y, acc, key) ==
    IF IsZero(FAdd(y, key)) THEN None ELSE Some(FMul(acc, FInv(FAdd(y, key))))

\* MembershipWitness::verify(y, pubkey, acc)
MembershipVerify(c, y, pubkey, acc) ==
    pair(c, FAdd(FMul(ParamP2, y), pubkey)) = pair(acc, ParamP2)

\* d_D(y) = prod (d_j - y) has no inverse: y is one of the deletions
RewriteFails(y, deletions) ==
    IsZero(ProdTo([j \in 1 .. Len(deletions) |-> FSub(deletions[j], y)],
                  Len(deletions)))

\* MembershipWitness::batch_update_assign(y, additions, deletions,
\* coefficients) for y outside the deletions:
\* C' = (d_A(y) * C + sum y^k * coefficients[k]) / d_D(y)
batch_update_assign(c, y, additions, deletions, coefficients) ==
    LET d_a == ProdTo([i \in 1 .. Len(additions) |-> FSub(additions[i], y)],
                      Len(additions))
        d_d == ProdTo([j \in 1 .. Len(deletions) |-> FSub(deletions[j], y)],
                      Len(deletions))
        v == SumTo([k \in 1 .. Len(coefficients) |->
                      FMul(coefficients[k], FPow(y, k - 1))],
                   Len(coefficients))
    IN  FMul(FAdd(FMul(d_a, c), v), FInv(d_d))

\* slice.chunks(Slices), resized with empty slices to n chunks
SliceCount(xs) == (Len(xs) + Slices - 1) \div Slices
Chunk(xs, i) == SubSeq(xs, (i - 1) * Slices + 1, SeqMin(i * Slices, Len(xs)))

RECURSIVE UpdateSlices(_, _, _, _, _)
\* the first loop of single_server_split_batch_update over n slices: the
\* accumulator and the deltas
UpdateSlices(key, acc, additions, deletions, n) ==
    IF n = 0 THEN [ acc |-> acc, deltas |-> << >> ]
    ELSE CHOOSE r \in
            { LET u == CHOOSE v \in
                          { update_assign(before.acc, key, Chunk(additions, n),
                                          Chunk(deletions, n)) } : TRUE
              IN  [ acc    |-> u.acc,
                    deltas |-> Append(before.deltas, u.coefficients) ] :
              before \in { UpdateSlices(key, acc, additions, deletions,
                                        n - 1) } } : TRUE

RECURSIVE RewriteSlices(_, _, _, _, _, _)
\* the second loop: the witness rewritten slice after slice
RewriteSlices(c, y, additions, deletions, deltas, n) ==
    IF n = 0 THEN c
    ELSE CHOOSE r \in
            { batch_update_assign(w, y, Chunk(additions, n),
                                  Chunk(deletions, n), deltas[n]) :
              w \in { RewriteSlices(c, y, additions, deletions, deltas,
                                    n - 1) } } : TRUE

\* ------------------------------------------------------------ state
VARIABLES
    server,   \* the Server (every replica handed to User::update is a clone of it)
    users,    \* the User objects, by identifier
    last      \* the call whose returned value the caller holds:
              \* [op, id, res, n, t, a, cor, eph, io]

vars == << server, users, last >>

UserIds == 0 .. MaxId

\* the values Server::new and User::create_witness draw at random
Alphas == {1, 3}
SignKeys == {2}
AccSeeds == {3}
UserKeys == {4}
Nonces == {0, 2}

\* the random coefficients of the Shamir splits, from a seed
ShareRand(a) ==
    [j \in 1 .. (MaxDel + 3) |->
        [i \in 1 .. MaxServers |-> (a * (j + i * i)) % P]]
SeedRange == 0 .. MaxSeed

\* the corruptions of one answer entry
CorruptDeltas == {3}
Corruptions(n) ==
    [ srv : 1 .. n, vec : {"ds", "vs"}, chunk : 1 .. 2, delta : CorruptDeltas ]

\* last when no returned value is held
NoCall ==
    [ op |-> "other", id |-> 0, res |-> "", n |-> 0, t |-> 0, a |-> 0,
      cor |-> NoCorruption, eph |-> 0, io |-> << >> ]

\* last after a call op for the identifier y that returned res
Returned(op, y, res) == [ NoCall EXCEPT !.op = op, !.id = y, !.res = res ]

\* an Option as the caller sees it
OptionTag(o) == IF o.some THEN "Some" ELSE "None"

Init ==
    /\ \E alpha \in Alphas, s_m \in SignKeys, v \in AccSeeds :
          server = ServerNew(alpha, s_m, v)
    /\ users = << >>
    /\ last = NoCall

\* server.add(y)
Add(y) ==
    /\ ~AddPanics(server, y)
    /\ \E r \in { ServerAdd(server, y) } :
          /\ server' = r.srv
          /\ last' = Returned("add", y, OptionTag(r.out))
    /\ UNCHANGED users

\* server.delete(y)
Delete(y) ==
    /\ Len(server.deletions) < MaxDel
    /\ \E r \in { ServerDelete(server, y) } :
          /\ server' = r.srv
          /\ last' = Returned("delete", y, OptionTag(r.out))
    /\ UNCHANGED users

\* server.quick_delete(y)
QuickDelete(y) ==
    /\ Len(server.deletions) < MaxDel
    /\ \E r \in { ServerQuickDelete(server, y) } :
          /\ server' = r.srv
          /\ last' = Returned("quick_delete", y, OptionTag(r.out))
    /\ UNCHANGED users

\* users.push(User::new(&server, y))
NewUser(y) ==
    /\ y \notin DOMAIN users
    /\ Cardinality(DOMAIN users) < MaxUsers
    /\ users' = [ z \in (DOMAIN users) \cup {y} |->
                    IF z = y THEN UserNew(server, y) ELSE users[z] ]
    /\ last' = NoCall
    /\ UNCHANGED server

\* users[y].create_witness(&params, &server)
CreateWitness(y, key, k) ==
    /\ y \in DOMAIN users
    /\ \E pr \in { SchnorrProof(key, k) } :
          ~WitnessPanics(server, y, pr.challenge, pr.response, pr.user_pub_key)
    /\ \E u \in { create_witness(users[y], server, key, k) } :
          /\ users' = [ users EXCEPT ![y] = u ]
          /\ last' = [ Returned("create_witness", y, "") EXCEPT
                          !.io = << key, k >> ]
    /\ UNCHANGED server

\* users[y].update(&servers, t) with servers = n clones of server, of which
\* the one cor names answers with one altered entry
Update(y, n, t, a, cor) ==
    /\ y \in DOMAIN users
    /\ \E rand \in { ShareRand(a) } :
         \E r \in { update(users[y], server, n, t, rand, cor) } :
          /\ users' = [ users EXCEPT ![y] = r.user ]
          /\ last' = [ op |-> "update", id |-> y, res |-> r.res,
                       n |-> n, t |-> t, a |-> a, cor |-> cor, eph |-> 0,
                       io |-> << >> ]
    /\ UNCHANGED server

\* the scalars MembershipProofCommitting::new draws, from a seed
ProofRand(b) ==
    [ r |-> [i \in 0 .. 2 |-> (b + 2 * i + 1) % P],
      k |-> [i \in 0 .. 7 |-> (3 * b + i * i + 2) % P] ]
Ephemerals == {0, 1}

\* users[y].make_membership_proof(&params, &server.get_public_keys(), &eph)
\* and Witness::check_membership_proof of the proof against
\* server.get_accumulator(); res is "None" when no proof was made, else the
\* verdict
ProveAndCheck(y, eph, b) ==
    /\ y \in DOMAIN users
    /\ \E pr \in { make_membership_proof(users[y], get_public_keys(server),
                                          eph, ProofRand(b)) } :
          last' = [ op |-> "proof", id |-> y,
                    res |-> IF ~pr.some THEN "None"
                            ELSE IF check_membership_proof(pr.val,
                                        get_public_keys(server),
                                        get_accumulator(server), eph)
                            THEN "true" ELSE "false",
                    n |-> 0, t |-> 0, a |-> b, cor |-> NoCorruption,
                    eph |-> eph, io |-> << >> ]
    /\ UNCHANGED << server, users >>

Prove ==
    \E y \in UserIds, eph \in Ephemerals, b \in SeedRange : ProveAndCheck(y, eph, b)

\* the caller takes the value that the call returned
TakeResult ==
    /\ last.op # "other"
    /\ last' = NoCall
    /\ UNCHANGED << server, users >>

\* the caller is between two calls
Idle == last.op = "other"

HonestUpdate ==
    \E y \in UserIds, n \in 1 .. MaxServers, t \in 1 .. MaxServers,
       a \in SeedRange :
        Update(y, n, t, a, NoCorruption)

CorruptUpdate ==
    \E y \in UserIds, n \in 3 .. MaxServers :
        \E t \in 2 .. (n - 1), cor \in Corruptions(n) :
            Update(y, n, t, MaxSeed, cor)

\* an update against fewer replicas than the threshold
ShortUpdate ==
    \E y \in UserIds : Update(y, 1, 2, MaxSeed, NoCorruption)

\* an update with an empty slice of servers or with the threshold 0
EdgeUpdate ==
    \E y \in UserIds, n \in 0 .. MaxServers, t \in 0 .. MaxServers :
        /\ n = 0 \/ t = 0
        /\ Update(y, n, t, MaxSeed, NoCorruption)

\* the proofs a caller of Server::witness may present for the key and the
\* nonce k: the honest one, one with another response, one whose challenge
\* was derived for another commitment, one presented with another public key
ProofVariants(key, k) ==
    LET pr == SchnorrProof(key, k)
    IN  << pr,
           [ pr EXCEPT !.response = FAdd(@, 1) ],
           [ pr EXCEPT !.challenge = SchnorrProof(key, FAdd(k, 1)).challenge ],
           [ pr EXCEPT !.user_pub_key = FAdd(@, ParamK1) ] >>

\* a server that forgets the witness it has handed out
AskWitnessOnce(y, key, k, v) ==
    /\ \E pr \in { ProofVariants(key, k)[v] } :
          /\ ~WitnessPanics(server, y, pr.challenge, pr.response, pr.user_pub_key)
          /\ \E got \in { ServerWitness(server, y, pr.challenge, pr.response,
                                         pr.user_pub_key) } :
                /\ last' = [ Returned("witness", y, OptionTag(got)) EXCEPT
                               !.a = v, !.io = << key, k >> ]
                /\ server' = IF got.some
                             THEN [ server EXCEPT !.all_witnesses =
                                      [ z \in (DOMAIN @) \ {y} |-> @[z] ] ]
                             ELSE server
    /\ UNCHANGED users

\* server.witness(&params, &y, &challenge, &response, &user_pub_key) called
\* with the v-th of these proofs
AskWitness(y, key, k, v) ==
    /\ \E pr \in { ProofVariants(key, k)[v] } :
          /\ ~WitnessPanics(server, y, pr.challenge, pr.response, pr.user_pub_key)
          /\ \E got \in { ServerWitness(server, y, pr.challenge, pr.response,
                                         pr.user_pub_key) } :
                last' = [ Returned("witness", y, OptionTag(got)) EXCEPT
                            !.a = v, !.io = << key, k >> ]
    /\ UNCHANGED << server, users >>

Witness ==
    \E y \in UserIds, key \in UserKeys, k \in Nonces :
        \E v \in DOMAIN ProofVariants(key, k) : AskWitness(y, key, k, v)

ServerStep ==
    \/ \E y \in UserIds : Add(y)
    \/ \E y \in UserIds : Delete(y)

UserStep ==
    \/ \E y \in UserIds : NewUser(y)
    \/ \E y \in UserIds, key \in UserKeys, k \in Nonces : CreateWitness(y, key, k)

Next ==
    \/ Idle /\ ServerStep
    \/ Idle /\ \E y \in UserIds : QuickDelete(y)
    \/ Idle /\ UserStep
    \/ Idle /\ HonestUpdate
    \/ Idle /\ Prove
    \/ TakeResult

Spec == Init /\ [][Next]_vars

\* the system with Server::delete as its only deletion
NextDelete ==
    \/ Idle /\ ServerStep
    \/ Idle /\ UserStep
    \/ Idle /\ HonestUpdate
    \/ Idle /\ EdgeUpdate
    \/ Idle /\ Witness
    \/ Idle /\ Prove
    \/ TakeResult

SpecDelete == Init /\ [][NextDelete]_vars

\* the same with one replica answering wrongly
NextMalicious ==
    \/ Idle /\ ServerStep
    \/ Idle /\ UserStep
    \/ Idle /\ CorruptUpdate
    \/ Idle /\ ShortUpdate
    \/ TakeResult

SpecMalicious == Init /\ [][NextMalicious]_vars

\* the values the Shamir tests draw: the multipliers a and b (scalars, or the
\* logarithms of G1 points) and the second secret
Multipliers == Scalars
SecondSecrets == {2, 5}

\* 1 for Some, 0 for None
SomeBit(o) == IF o.some THEN 1 ELSE 0

\* test_shamir, test_shamir_check, test_shamir_affine and test_shamir_point on
\* one sharing: the secret is split into n shares with threshold t, rebuilt
\* from the shares without check coefficients, rebuilt with the check from
\* the shares a*v + b, and the G1 shares a*s1 + b*s2 (s2 the shares of
\* secret_2) are rebuilt with the check.  io holds the inputs and the three
\* Options returned.
ShamirCall(t, n, secret, seed, a, b, secret_2) ==
    /\ \E rand \in { ShareRand(seed) } :
       \E shares_1 \in { shamir_share(t, n, secret, rand[1]) } :
       \E shares_2 \in { shamir_share(t, n, secret_2, rand[2]) } :
       \E co \in { shamir_coefficients(t, [i \in 1 .. n |-> shares_1[i][1]]) } :
          LET plain == shamir_rebuild_scalar(
                           [i \in 1 .. n |-> shares_1[i][2]],
                           co.coefficients, [ some |-> FALSE, val |-> << >> ])
              affine == shamir_rebuild_scalar(
                            [i \in 1 .. n |-> FAdd(FMul(shares_1[i][2], a), b)],
                            co.coefficients, co.check)
              point == shamir_rebuild_point(
                           [i \in 1 .. n |-> FAdd(FMul(a, shares_1[i][2]),
                                                  FMul(b, shares_2[i][2]))],
                           co.coefficients, co.check)
          IN  last' = [ Returned("shamir", 0, "") EXCEPT
                          !.n = n, !.t = t, !.a = seed,
                          !.io = << secret, a, b, secret_2,
                                    SomeBit(plain), plain.val,
                                    SomeBit(affine), affine.val,
                                    SomeBit(point), point.val >> ]
    /\ UNCHANGED << server, users >>

Shamir ==
    \E t \in 1 .. MaxServers, secret \in Scalars, seed \in SeedRange,
       a \in Multipliers, b \in Multipliers, secret_2 \in SecondSecrets :
        \E n \in t .. MaxServers : ShamirCall(t, n, secret, seed, a, b, secret_2)

\* the sequences of n distinct non-zero evaluation points
DistinctPoints(n) ==
    { xs \in [1 .. n -> NonZero] : \A i, j \in 1 .. n : i # j => xs[i] # xs[j] }

\* shamir_coefficients and shamir_rebuild_scalar on t + 1 shares of the
\* polynomial secret + rand[1] x + .. (degree below t) at the points xs.  io
\* holds the secret, the Option rebuilt, the points and the check coefficients.
PointsCall(t, xs, secret, seed) ==
    /\ \E poly \in { [i \in 1 .. t |->
                        IF i = 1 THEN secret ELSE ShareRand(seed)[1][i - 1]] } :
       \E co \in { shamir_coefficients(t, xs) } :
       \E rebuilt \in { shamir_rebuild_scalar(
                            [i \in 1 .. (t + 1) |-> PolyEval(poly, xs[i], 1)],
                            co.coefficients, co.check) } :
          last' = [ Returned("points", 0, "") EXCEPT
                      !.t = t, !.a = seed,
                      !.io = << secret, SomeBit(rebuilt), rebuilt.val >>
                             \o xs \o co.check.val ]
    /\ UNCHANGED << server, users >>

Points ==
    \E t \in 1 .. (MaxServers - 1), secret \in Scalars, seed \in SeedRange :
        \E xs \in DistinctPoints(t + 1) : PointsCall(t, xs, secret, seed)

\* the Shamir layer on its own
NextShamir ==
    \/ Idle /\ Shamir
    \/ Idle /\ Points
    \/ TakeResult

SpecShamir == Init /\ [][NextShamir]_vars

\* the elements and the keys the accumulator tests draw, and the accumulators
\* they start from (logarithms to the base of the G1 generator)
BatchElems == 0 .. 2
BatchKeys == Scalars
BatchAccs == {ParamP1, 3}
RECURSIVE ListsUpTo(_, _)
ListsUpTo(S, n) ==
    IF n = 0 THEN { << >> }
    ELSE LET shorter == ListsUpTo(S, n - 1)
         IN  shorter \cup { Append(l, x) : l \in { m \in shorter : Len(m) = n - 1 },
                                            x \in S }
BatchLists == ListsUpTo(BatchElems, MaxBatch)

\* batch_test of key.rs, sub_test and batch_test of acc.rs on the values xs:
\* the product of batch_additions and batch_deletions, the accumulator after
\* add_assign and remove_assign of each value in turn, and the accumulator
\* after update_assign(xs, []) and after the following update_assign([], xs).
\* res is "abort" when an inversion is unwrapped on None.
BatchTest(key, acc, xs) ==
    /\ last' = IF BatchDeletionsPanics(key, xs)
               THEN [ Returned("batch_test", 0, "abort") EXCEPT
                        !.a = key, !.io = << acc, Len(xs) >> \o xs ]
               ELSE LET sub == [i \in 1 .. Len(xs) |->
                                  remove_assign(add_assign(acc, key, xs[i]),
                                                key, xs[i])]
                        mid == update_assign(acc, key, xs, << >>).acc
                        back == update_assign(mid, key, << >>, xs).acc
                    IN  [ Returned("batch_test", 0, "") EXCEPT
                            !.a = key,
                            !.io = << acc, Len(xs),
                                      FMul(batch_additions(key, xs),
                                           batch_deletions(key, xs)),
                                      mid, back >> \o xs \o sub ]
    /\ UNCHANGED << server, users >>

\* coefficient_test of key.rs: create_coefficients on the additions and the
\* deletions; io holds the two lengths, then the coefficients
CoefficientTest(key, additions, deletions) ==
    /\ ~BatchDeletionsPanics(key, deletions)
    /\ \E c \in { create_coefficients(key, additions, deletions) } :
          last' = [ Returned("coefficient_test", 0, "") EXCEPT
                      !.a = key,
                      !.io = << Len(additions), Len(deletions) >> \o c ]
    /\ UNCHANGED << server, users >>

\* one acc.update_assign(&key, additions, deletions): io holds the accumulator
\* before and after, the three lengths, the coefficients and the two batches
UpdateAssignCall(key, acc, additions, deletions) ==
    /\ ~BatchDeletionsPanics(key, deletions)
    /\ \E u \in { update_assign(acc, key, additions, deletions) } :
          last' = [ Returned("update_assign", 0, "") EXCEPT
                      !.a = key,
                      !.io = << acc, u.acc, Len(additions), Len(deletions),
                                Len(u.coefficients) >>
                             \o u.coefficients \o additions \o deletions ]
    /\ UNCHANGED << server, users >>

\* single_server_split_batch_update: the accumulator holds the deletions and
\* y; the additions and the deletions are applied slice by slice, then the
\* witness of y is rewritten slice by slice and verified.  io holds y, the
\* first and the final accumulator, the final witness, the verdict and the
\* two batches.
SplitBatchTest(key, y, additions, deletions) ==
    /\ ~BatchDeletionsPanics(key, deletions)
    /\ ~RewriteFails(y, deletions)
    /\ \E acc \in { with_elements(key, Append(deletions, y)) } :
       \E w \in { MembershipWitnessNew(y, acc, key) } :
          /\ w.some
          /\ LET n == IF SliceCount(additions) >= SliceCount(deletions)
                      THEN SliceCount(additions) ELSE SliceCount(deletions)
             IN  \E u \in { UpdateSlices(key, acc, additions, deletions, n) } :
                 \E c \in { RewriteSlices(w.val, y, additions, deletions,
                                           u.deltas, n) } :
                    last' = [ Returned("split_batch", y, "") EXCEPT
                                !.a = key, !.n = n,
                                !.io = << acc, u.acc, c,
                                          IF MembershipVerify(c, y,
                                                 PublicKeyFrom(key), u.acc)
                                          THEN 1 ELSE 0,
                                          Len(additions), Len(deletions) >>
                                       \o additions \o deletions ]
    /\ UNCHANGED << server, users >>

BatchStep ==
    \/ \E key \in BatchKeys, acc \in BatchAccs, xs \in BatchLists :
          BatchTest(key, acc, xs)
    \/ \E key \in Alphas, additions \in BatchLists, deletions \in BatchLists :
          CoefficientTest(key, additions, deletions)
    \/ \E key \in Alphas, acc \in BatchAccs :
       \E additions \in BatchLists, deletions \in BatchLists :
          UpdateAssignCall(key, acc, additions, deletions)
    \/ \E key \in Alphas, y \in BatchElems :
       \E additions \in BatchLists, deletions \in BatchLists :
          SplitBatchTest(key, y, additions, deletions)

\* the accumulator algebra on its own
NextBatch ==
    \/ Idle /\ BatchStep
    \/ TakeResult

SpecBatch == Init /\ [][NextBatch]_vars

RECURSIVE Flatten(_, _)
\* the first n sequences of ss, one after the other
Flatten(ss, n) == IF n = 0 THEN << >> ELSE Flatten(ss, n - 1) \o ss[n]

\* users[y].prepare_for_update(new_epoch, n, t) with new_epoch d epochs after
\* the user's.  io holds d, the number of share vectors, their lengths, the
\* evaluation points and the share vectors one after the other; a panic or an
\* Err leaves d alone.
PrepareCall(y, d, n, t, a) ==
    /\ y \in DOMAIN users
    /\ \E prep \in { prepare_for_update(users[y], users[y].epoch + d, n, t,
                                        ShareRand(a)) } :
          last' = [ Returned("prepare", y, prep.res) EXCEPT
                      !.n = n, !.t = t, !.a = a,
                      !.io = IF prep.res # "Ok" THEN << d >>
                             ELSE << d, Len(prep.y_shares) >>
                                  \o [s \in 1 .. Len(prep.y_shares) |->
                                        Len(prep.y_shares[s])]
                                  \o prep.y_values
                                  \o Flatten(prep.y_shares, Len(prep.y_shares)) ]
    /\ UNCHANGED << server, users >>

Prepare ==
    \E y \in UserIds, d \in 0 .. (2 * MaxDel), n \in 1 .. MaxServers,
       t \in 1 .. MaxServers, a \in SeedRange :
        PrepareCall(y, d, n, t, a)

\* the users preparing their requests
NextPrepare ==
    \/ Idle /\ \E y \in UserIds : NewUser(y)
    \/ Idle /\ Prepare
    \/ TakeResult

SpecPrepare == Init /\ [][NextPrepare]_vars

\* the share vectors a caller hands to Server::update
ShareScalars == {1, 3, 5}
ShareVectors == ListsUpTo(ShareScalars, MaxShares)

\* server.update(num_epochs, &y_shares).  res is "hang" when the call never
\* returns; else io holds the length of y_shares, of ds and of vs, then
\* y_shares, ds and vs.
ServerUpdateCall(num_epochs, y_shares) ==
    /\ last' = IF ServerUpdateHangs(server, num_epochs, y_shares)
               THEN [ Returned("server_update", 0, "hang") EXCEPT
                        !.n = num_epochs, !.io = << 0 >> ]
               ELSE LET r == CHOOSE v \in
                                { ServerUpdate(server, num_epochs, y_shares) } :
                                TRUE
                    IN  [ Returned("server_update", 0, "") EXCEPT
                            !.n = num_epochs,
                            !.io = << Len(y_shares), Len(r.ds), Len(r.vs) >>
                                   \o y_shares \o r.ds \o r.vs ]
    /\ UNCHANGED << server, users >>

AnswerRequest ==
    \E num_epochs \in 0 .. (MaxDel + 1), y_shares \in ShareVectors :
        ServerUpdateCall(num_epochs, y_shares)

\* the server answering update requests
NextAnswer ==
    \/ Idle /\ ServerStep
    \/ Idle /\ AnswerRequest
    \/ TakeResult

SpecAnswer == Init /\ [][NextAnswer]_vars

\* the server with both deletions and the issuance of witnesses
NextIssue ==
    \/ Idle /\ ServerStep
    \/ Idle /\ \E y \in UserIds : QuickDelete(y)
    \/ Idle /\ UserStep
    \/ Idle /\ Witness
    \/ TakeResult

SpecIssue == Init /\ [][NextIssue]_vars

\* ------------------------------------------------------------ properties
\* the accumulator of epoch e, and the identifiers deleted from epoch e on
AccAt(srv, e) == srv.accumulators[e]
DeletedSince(srv, e) == { srv.deletions[i] : i \in e .. Len(srv.deletions) }

\* the membership relation C*(y + alpha) = V, as the pairing equation
Member(srv, y, c) ==
    pair(c, FAdd(FMul(ParamP2, y), srv.public_keys.witness_key))
        = pair(get_accumulator(srv), ParamP2)

\* the number of chunks an update over d epochs is answered with
Chunks(d) == (d + WindowSize(d) - 2) \div (WindowSize(d) - 1)

\* C1: after any sequence of Server::add and Server::delete, every witness the
\* server still stores satisfies e(C, P2*y + Q) = e(V, P2) for the latest V.
C1_StoredWitnessesValid ==
    \A y \in DOMAIN server.all_witnesses :
        Member(server, y, server.all_witnesses[y])

\* a stored witness that two deletions of other users have rewritten
C1_Witness ==
    /\ Len(server.deletions) >= 2
    /\ \E y \in DOMAIN server.all_witnesses :
          /\ y \notin DeletedSince(server, 1)
          /\ Member(server, y, server.all_witnesses[y])

\* C2: a user whose witness is valid at its epoch and who was not deleted
\* since, after at least one deletion, updates against n honest replicas with
\* 2 <= t <= n: the call returns Ok and check_witness succeeds against the
\* latest accumulator; prepare_for_update, Server::update on each replica and
\* post_update, run one after the other, give the same result and witness.
C2_FirstUpdateValid ==
    [][ ( /\ last'.op = "update"
          /\ last'.cor = NoCorruption
          /\ 2 <= last'.t
          /\ last'.t <= last'.n
          /\ check_witness(users[last'.id],
                           AccAt(server, users[last'.id].epoch))
          /\ get_epoch(server) > users[last'.id].epoch
          /\ last'.id \notin DeletedSince(server, users[last'.id].epoch) )
        => ( /\ last'.res = "Ok"
             /\ check_witness(users'[last'.id], get_accumulator(server'))
             /\ \E prep \in { prepare_for_update(users[last'.id], get_epoch(server),
                                                 last'.n, last'.t,
                                                 ShareRand(last'.a)) } :
                  \E post \in { post_update(
                                   users[last'.id].witness.witness, last'.t,
                                   prep.y_values,
                                   [s \in 1 .. last'.n |->
                                       ServerUpdate(server, prep.epoch_diff,
                                                    prep.y_shares[s])]) } :
                      /\ post.res = last'.res
                      /\ post.witness = users'[last'.id].witness.witness ) ]_vars

\* an update over four epochs (two chunks) with a check share has succeeded
C2_Witness ==
    /\ last.op = "update"
    /\ last.res = "Ok"
    /\ last.t >= 2
    /\ last.n > last.t
    /\ get_epoch(server) - users[last.id].epoch >= 4
    /\ check_witness(users[last.id], get_accumulator(server))
    /\ ~check_witness(users[last.id], AccAt(server, users[last.id].epoch))

\* C3: after a successful User::update the user holds the accumulator and the
\* epoch of the server.
C3_AdoptsAccumulatorAndEpoch ==
    (last.op = "update" /\ last.res = "Ok")
        => /\ users[last.id].accumulator = get_accumulator(server)
           /\ users[last.id].epoch = get_epoch(server)

\* C4: after every successful update of a user that was never deleted, the
\* second and later ones included, check_witness succeeds against the latest
\* accumulator.
C4_ValidAfterEveryUpdate ==
    ( /\ last.op = "update"
      /\ last.res = "Ok"
      /\ last.cor = NoCorruption
      /\ last.id \notin DeletedSince(server, 1) )
        => check_witness(users[last.id], get_accumulator(server))

\* C5: an update that returns an error leaves the User as it was.
C5_FailedUpdateKeepsState ==
    [][ (last'.op = "update" /\ last'.res # "Ok") => users' = users ]_vars

\* the update of a user with a witness was refused for a malicious server, and
\* for a deleted user
C5_Witness ==
    /\ last.op = "update"
    /\ last.res \in {"malicious server", "user has been deleted"}
    /\ users[last.id].witness.some
    /\ users[last.id].accumulator # get_accumulator(server)

\* C6: with honest replicas, an update that reaches post_update returns
\* "user has been deleted" exactly when the user's identifier is among the
\* deletions the server logged since the user's epoch.
C6_DeletedIffLogged ==
    [][ ( /\ last'.op = "update"
          /\ last'.cor = NoCorruption
          /\ users[last'.id].witness.some
          /\ 2 <= last'.t
          /\ last'.t <= last'.n
          /\ get_epoch(server) > users[last'.id].epoch )
        => ( last'.res = "user has been deleted"
               <=> last'.id \in DeletedSince(server, users[last'.id].epoch) ) ]_vars

\* a user deleted in the second chunk was told so
C6_Witness ==
    /\ last.op = "update"
    /\ last.res = "user has been deleted"
    /\ last.cor = NoCorruption
    /\ get_epoch(server) - users[last.id].epoch >= 4
    /\ Last(server.deletions) = last.id
    /\ \A i \in users[last.id].epoch .. (Len(server.deletions) - 1) :
          server.deletions[i] # last.id

\* C7: with n >= t + 1 replicas and a user that was not deleted, one altered
\* ds or vs entry in the answer of one of the first t + 1 replicas makes
\* post_update return "malicious server".
C7_SingleCorruptionRejected ==
    [][ ( /\ last'.op = "update"
          /\ users[last'.id].witness.some
          /\ 2 <= last'.t
          /\ last'.n >= last'.t + 1
          /\ get_epoch(server) > users[last'.id].epoch
          /\ last'.id \notin DeletedSince(server, users[last'.id].epoch)
          /\ last'.cor.srv \in 1 .. (last'.t + 1)
          /\ last'.cor.delta # 0
          /\ last'.cor.chunk \in
                 1 .. Chunks(get_epoch(server) - users[last'.id].epoch) )
        => last'.res = "malicious server" ]_vars

\* replica t + 1, whose share only enters the check, altered the point of the
\* second chunk and the update was refused
C7_Witness ==
    /\ last.op = "update"
    /\ last.res = "malicious server"
    /\ last.cor.srv = last.t + 1
    /\ last.cor.vec = "vs"
    /\ last.cor.chunk = 2
    /\ last.id \notin DeletedSince(server, users[last.id].epoch)

\* the proof users[y] makes from what it holds, with the scalars of seed b
ProofOf(y, eph, b) ==
    make_membership_proof(users[y], get_public_keys(server), eph, ProofRand(b))

\* C8: a user whose witness is valid for the accumulator V it holds gets a
\* proof for every ephemeral challenge, check_membership_proof accepts it
\* for V and the same challenge, and the verifier's t_1, t_2, pi_1, pi_2 are the
\* prover's commitments.
C8_ProofComplete ==
    (last.op = "proof" /\ check_witness(users[last.id], users[last.id].accumulator))
        => \E pr \in { ProofOf(last.id, last.eph, last.a) } :
             /\ pr.some
             /\ last.res # "None"
             /\ check_membership_proof(pr.val, get_public_keys(server),
                                       users[last.id].accumulator, last.eph)
             /\ \E mpc \in { MembershipProofCommitting(users[last.id].witness,
                                get_public_keys(server), ProofRand(last.a)) } :
                  \E rec \in { Reconstruct(pr.val, get_public_keys(server),
                                           users[last.id].accumulator) } :
                      /\ rec.t_1 = mpc.t_1
                      /\ rec.t_2 = mpc.t_2
                      /\ rec.pi_1 = mpc.pi_1
                      /\ rec.pi_2 = mpc.pi_2

\* a proof made from an updated witness was accepted for the latest accumulator
C8_Witness ==
    /\ last.op = "proof"
    /\ last.res = "true"
    /\ last.eph = 1
    /\ check_witness(users[last.id], users[last.id].accumulator)
    /\ users[last.id].accumulator = get_accumulator(server)
    /\ users[last.id].accumulator # AccAt(server, users[last.id].epoch)

\* C9: once y is deleted and the accumulator has moved from the V that y holds
\* to V' # V, y's witness fails check_witness against V', and the proof y
\* makes from it is accepted for V and refused for V'.
C9_StaleWitnessRejected ==
    ( /\ last.op = "proof"
      /\ check_witness(users[last.id], users[last.id].accumulator)
      /\ last.id \in DeletedSince(server, users[last.id].epoch)
      /\ get_accumulator(server) # users[last.id].accumulator )
        => /\ ~check_witness(users[last.id], get_accumulator(server))
           /\ last.res = "false"
           /\ \E pr \in { ProofOf(last.id, last.eph, last.a) } :
                 /\ pr.some
                 /\ check_membership_proof(pr.val, get_public_keys(server),
                                           users[last.id].accumulator, last.eph)
                 /\ ~check_membership_proof(pr.val, get_public_keys(server),
                                            get_accumulator(server), last.eph)

\* the proof of a deleted user was refused for the accumulator after the delete
C9_Witness ==
    /\ last.op = "proof"
    /\ last.res = "false"
    /\ check_witness(users[last.id], users[last.id].accumulator)
    /\ Last(server.deletions) = last.id
    /\ get_accumulator(server) # users[last.id].accumulator

\* C10 as stated: after other users were deleted, the proof the surviving user
\* makes from its cached witness, without an update, is accepted for the
\* server's new accumulator.
C10_SurvivorStillPasses ==
    ( /\ last.op = "proof"
      /\ check_witness(users[last.id], users[last.id].accumulator)
      /\ users[last.id].accumulator = AccAt(server, users[last.id].epoch)
      /\ get_epoch(server) > users[last.id].epoch
      /\ last.id \notin DeletedSince(server, users[last.id].epoch) )
        => last.res = "true"

\* C10 amended: the proof a user makes from its cached witness without an
\* update is accepted for the accumulator the user holds and, when deletions
\* moved the server's accumulator away from it, refused for the new one, for
\* the surviving user as for the deleted ones.
C10_CachedProofRefused ==
    ( /\ last.op = "proof"
      /\ check_witness(users[last.id], users[last.id].accumulator)
      /\ users[last.id].accumulator = AccAt(server, users[last.id].epoch)
      /\ get_epoch(server) > users[last.id].epoch
      /\ get_accumulator(server) # users[last.id].accumulator )
        => /\ last.res = "false"
           /\ \E pr \in { ProofOf(last.id, last.eph, last.a) } :
                 /\ pr.some
                 /\ check_membership_proof(pr.val, get_public_keys(server),
                                           users[last.id].accumulator, last.eph)

\* the proof of a surviving user that did not update was refused
C10_Witness ==
    /\ last.op = "proof"
    /\ last.res = "false"
    /\ check_witness(users[last.id], users[last.id].accumulator)
    /\ users[last.id].accumulator = AccAt(server, users[last.id].epoch)
    /\ Len(server.deletions) >= 2
    /\ last.id \notin DeletedSince(server, 1)
    /\ last.id \in DOMAIN server.all_witnesses

\* C11: a witness that User::create_witness obtains for an identifier the
\* server currently stores verifies against the server's latest accumulator,
\* whatever adds and deletions (delete or quick_delete) came before.
C11_IssuedWitnessValid ==
    [][ (last'.op = "create_witness" /\ HasWitness(server, last'.id))
            => check_witness(users'[last'.id], get_accumulator(server')) ]_vars

\* C12: Server::witness answers None for an identifier without a stored
\* witness whatever the proof, and for an added identifier when the Schnorr
\* check fails (another response, a challenge of another commitment, another
\* public key); it accepts the honest proof for an added identifier; and a
\* create_witness that is answered None leaves the User as it was.
C12_WitnessRefusals ==
    [][ /\ (last'.op = "witness")
              => (last'.res = "Some"
                    <=> (HasWitness(server, last'.id) /\ last'.a = 1))
        /\ (last'.op = "create_witness" /\ ~HasWitness(server, last'.id))
              => users' = users ]_vars

\* a proof with an altered response was refused for an identifier that has a
\* stored witness
C12_Witness ==
    /\ last.op = "witness"
    /\ last.a = 2
    /\ last.res = "None"
    /\ HasWitness(server, last.id)
    /\ Len(server.deletions) >= 1

\* C13: the deletion log and the accumulator list move in lockstep: the log
\* is one shorter than the list, the epoch is the length of the list, a
\* successful delete or quick_delete appends exactly one entry to each (the
\* deleted identifier to the log) and keeps the entries before it, and no
\* other call changes either list.
C13_Lockstep ==
    [][ LET acc == server.accumulators
            del == server.deletions
            acc2 == server'.accumulators
            del2 == server'.deletions
        IN  /\ Len(del) = Len(acc) - 1
            /\ Len(del2) = Len(acc2) - 1
            /\ get_epoch(server') = Len(acc2)
            /\ IF last'.op \in {"delete", "quick_delete"} /\ last'.res = "Some"
               THEN /\ Len(acc2) = Len(acc) + 1
                    /\ SubSeq(acc2, 1, Len(acc)) = acc
                    /\ del2 = Append(del, last'.id)
               ELSE /\ acc2 = acc
                    /\ del2 = del ]_vars

\* a quick_delete appended the third entry of the log
C13_Witness ==
    /\ last.op = "quick_delete"
    /\ last.res = "Some"
    /\ Len(server.deletions) = 3
    /\ get_epoch(server) = 4

\* C14: every accumulator is the one before it with the logged identifier
\* removed, accumulators[i+1] = accumulators[i] * (deletions[i] + alpha)^-1,
\* after any mix of add, delete and quick_delete.
C14_AccumulatorChain ==
    \A i \in 1 .. Len(server.deletions) :
        server.accumulators[i + 1] =
            FMul(server.accumulators[i],
                 FInv(FAdd(server.deletions[i], server.wit_secret_key)))

\* C15: an identifier that was deleted never has a stored witness again, and
\* an add of a deleted identifier returns None.
C15_DeletedStaysDeleted ==
    /\ \A y \in DeletedSince(server, 1) : ~HasWitness(server, y)
    /\ (last.op = "add" /\ last.id \in DeletedSince(server, 1))
          => last.res = "None"

\* C16: add of an identifier that has a stored witness, and delete or
\* quick_delete of one that has none, return None and leave the server
\* (accumulators, deletions, stored witnesses, users, keys) as it was.
C16_RefusedWithoutEffect ==
    [][ /\ (last'.op = "add" /\ HasWitness(server, last'.id))
              => (last'.res = "None" /\ server' = server)
        /\ (last'.op \in {"delete", "quick_delete"}
                /\ ~HasWitness(server, last'.id))
              => (last'.res = "None" /\ server' = server) ]_vars

\* an add was refused for an identifier whose witness two deletions have left
\* in place
C16_Witness ==
    /\ last.op = "add"
    /\ last.res = "None"
    /\ HasWitness(server, last.id)
    /\ Len(server.deletions) >= 2

\* C17: Server::witness (called directly or by create_witness) and
\* Server::update (called by User::update) leave the server unchanged,
\* whether they accept or refuse.
C17_ReadOnly ==
    [][ (last'.op \in {"witness", "create_witness", "update"})
            => server' = server ]_vars

\* a witness was handed out by a server that has deleted a user
C17_Witness ==
    /\ last.op = "witness"
    /\ last.res = "Some"
    /\ Len(server.deletions) >= 1

\* C18: User::update always returns a value (Ok or an error), it never
\* aborts; in particular it returns when no deletion happened since the
\* user's epoch.
C18_UpdateNeverAborts ==
    (last.op = "update") => last.res # "abort"

\* C19: for a user that has a witness, User::update returns "invalid
\* threshold" exactly when num_servers < threshold or threshold <= 1.
C19_InvalidThresholdExactly ==
    (last.op = "update" /\ users[last.id].witness.some)
        => (last.res = "invalid threshold"
              <=> (last.n < last.t \/ last.t <= 1))

\* C20: for every secret, threshold t >= 1, n >= t and random coefficients,
\* the first t shares rebuild to the secret; the shares a*v + b rebuild, with
\* the check coefficients when n >= t + 1, to Some(a*S + b); the G1 shares
\* a*s1 + b*s2 rebuild to Some(a*S1 + b*S2).
C20_ShamirRebuilds ==
    (last.op = "shamir")
        => LET secret == last.io[1]
               a == last.io[2]
               b == last.io[3]
               secret_2 == last.io[4]
           IN  /\ last.io[5] = 1 /\ last.io[6] = secret
               /\ last.io[7] = 1 /\ last.io[8] = FAdd(FMul(a, secret), b)
               /\ last.io[9] = 1
               /\ last.io[10] = FAdd(FMul(a, secret), FMul(b, secret_2))

\* a sharing with threshold 3 among 4, with non-zero random coefficients and
\* a proper affine map, rebuilt with the check coefficients
C20_Witness ==
    /\ last.op = "shamir"
    /\ last.t = 3 /\ last.n = 4 /\ last.a = 1
    /\ last.io[2] = 3 /\ last.io[3] = 5
    /\ last.io[7] = 1
    /\ last.io[8] = FAdd(FMul(3, last.io[1]), 5)
    /\ last.io[8] # last.io[1]

\* C21: batch_additions(xs) * batch_deletions(xs) is 1, add_assign followed by
\* remove_assign of the same element gives back the accumulator, and so does
\* update_assign(xs, []) followed by update_assign([], xs), whenever no
\* x + alpha is zero
C21_BatchInverse ==
    (last.op = "batch_test" /\ last.res # "abort") =>
        /\ last.io[3] = 1
        /\ last.io[5] = last.io[1]
        /\ \A i \in 1 .. last.io[2] : last.io[5 + last.io[2] + i] = last.io[1]

C21_Witness ==
    /\ last.op = "batch_test"
    /\ last.res # "abort"
    /\ last.io[2] = 2
    /\ last.io[4] # last.io[1]
    /\ last.io[6] # last.io[7]

\* C22 as stated: create_coefficients(A, D) returns a vector of length
\* max(|A|, |D| + 1) - 1 for every A and D
C22_LengthAsStated ==
    last.op = "coefficient_test" =>
        Len(last.io) - 2 =
            (IF last.io[1] >= last.io[2] + 1 THEN last.io[1] ELSE last.io[2] + 1) - 1

\* C22: create_coefficients(A, D) returns a vector of length max(|A|, |D|)
\* for every A and D (length 3 for |A| = 2, |D| = 3)
C22_CoefficientLength ==
    last.op = "coefficient_test" =>
        Len(last.io) - 2 = (IF last.io[1] >= last.io[2] THEN last.io[1] ELSE last.io[2])

C22_Witness ==
    /\ last.op = "coefficient_test"
    /\ last.io[1] = 3
    /\ last.io[2] = 1
    /\ Len(last.io) - 2 = 3
    /\ last.io[5] # 0

\* v_A(x) - v_D(x) * prod (a_i + alpha) at the point x, by its sums of products
BatchPolynomialAt(key, additions, deletions, x) ==
    LET n == Len(additions)
        m == Len(deletions)
        v_a == SumTo([s \in 1 .. n |->
                        FMul(ProdTo([i \in 1 .. (s - 1) |->
                                        FAdd(additions[i], key)], s - 1),
                             ProdTo([j \in 1 .. (n - s) |->
                                        FSub(additions[s + j], x)], n - s))], n)
        v_d == SumTo([s \in 1 .. m |->
                        FMul(ProdTo([i \in 1 .. s |->
                                        FInv(FAdd(deletions[i], key))], s),
                             ProdTo([j \in 1 .. (s - 1) |->
                                        FSub(deletions[j], x)], s - 1))], m)
    IN  FSub(v_a, FMul(v_d, ProdTo([i \in 1 .. n |-> FAdd(additions[i], key)], n)))

\* C23: update_assign(key, A, D) sets V' = V * prod (a_i + alpha) *
\* prod (d_j + alpha)^-1 and returns the coefficients of
\* v_A - v_D * prod (a_i + alpha), each multiplied by the prior V; a witness for
\* an element y outside D, rewritten batch after batch with each batch's A, D
\* and coefficients, passes the pairing check against the final accumulator
C23_BatchUpdate ==
    /\ last.op = "update_assign" =>
          LET v == last.io[1]
              n == last.io[3]
              m == last.io[4]
              len == last.io[5]
              coefficients == SubSeq(last.io, 6, 5 + len)
              additions == SubSeq(last.io, 6 + len, 5 + len + n)
              deletions == SubSeq(last.io, 6 + len + n, 5 + len + n + m)
          IN  /\ last.io[2] =
                   FMul(FMul(v, ProdTo([i \in 1 .. n |->
                                          FAdd(additions[i], last.a)], n)),
                        ProdTo([j \in 1 .. m |->
                                  FInv(FAdd(deletions[j], last.a))], m))
              /\ \A x \in Scalars :
                    SumTo([k \in 1 .. len |->
                             FMul(coefficients[k], FPow(x, k - 1))], len)
                        = FMul(v, BatchPolynomialAt(last.a, additions,
                                                    deletions, x))
    /\ last.op = "split_batch" => last.io[4] = 1

C23_Witness ==
    /\ last.op = "split_batch"
    /\ last.n = 2
    /\ last.io[5] = 3
    /\ last.io[6] = 3
    /\ last.io[2] # last.io[1]
    /\ last.io[4] = 1

RECURSIVE LengthsBefore(_)
\* the share vector users[y] sent to server s in the call last records
LengthsBefore(s) == IF s = 1 THEN 0 ELSE LengthsBefore(s - 1) + last.io[1 + s]
SentTo(s) ==
    LET count == last.io[2]
    IN  SubSeq(last.io, 3 + 2 * count + LengthsBefore(s),
               2 + 2 * count + LengthsBefore(s) + last.io[2 + s])

\* random coefficients with which the identifier y2 sends the vector v to
\* server s: the linear coefficient of the split of y2^j is (v[j] - y2^j) / s
HidingRand(v, y2, s) ==
    [j \in 1 .. Len(v) |->
        [i \in 1 .. MaxServers |->
            IF i = 1 THEN FMul(FSub(v[j], FPow(y2, j)), FInv(FromInt(s)))
            ELSE 0]]

\* the vectors checked against a vector sent: every vector of that length
\* when it has at most two entries, else the vector itself
HidingTargets(v) == IF Len(v) <= 2 THEN [1 .. Len(v) -> Scalars] ELSE { v }

\* C24: for a threshold t >= 2 and any server index s, the share vectors
\* prepare_for_update can send to server s, over all choices of the Shamir
\* randomness, are the same for every identifier y
C24_Hiding ==
    (last.op = "prepare" /\ last.res = "Ok") =>
        \A s \in 1 .. last.io[2] : \A y2 \in Scalars :
            \A v \in HidingTargets(SentTo(s)) :
                prepare_for_update([ users[last.id] EXCEPT !.id = y2 ],
                                   users[last.id].epoch + last.io[1],
                                   last.n, last.t,
                                   HidingRand(v, y2, s)).y_shares[s] = v

C24_Witness ==
    /\ last.op = "prepare"
    /\ last.res = "Ok"
    /\ last.t = 2
    /\ last.n = 3
    /\ last.id = 1
    /\ SentTo(2) # << 1, 1 >>
    /\ Len(SentTo(2)) = 2

\* the least k >= floor(sqrt(2.5 * d)) for which 2k < 5 * ceil(d / k) is
\* false, with ceil(d / k) = (d + k - 1) div k
StatedWindow(d) ==
    CHOOSE k \in SqrtWindow(d) .. (5 * d + 5) :
        /\ ~(2 * k < 5 * ((d + k - 1) \div k))
        /\ \A kk \in SqrtWindow(d) .. (k - 1) :
              2 * kk < 5 * ((d + kk - 1) \div kk)

\* C26: for every d >= 1 the window size is the least k >= floor(sqrt(2.5 * d))
\* for which 2k < 5 * ceil(d / k) is false, the quotient (d + k - 1) div k
\* being taken before the multiplication by 5
C26_WindowAsStated ==
    (last.op = "prepare" /\ last.res = "Ok") =>
        last.io[3] + 1 = StatedWindow(last.io[1])

\* the value at 0 of the polynomial of degree below t through the first
\* t - 1 shares and the share of server s
RebuildWith(t, s, points, shares) ==
    LET pick == [i \in 1 .. t |-> IF i < t THEN i ELSE s]
    IN  shamir_rebuild_scalar(
            [i \in 1 .. t |-> shares[pick[i]]],
            shamir_coefficients(t, [i \in 1 .. t |-> points[pick[i]]]).coefficients,
            [ some |-> FALSE, val |-> << >> ])

\* C27: for every d >= 1 and valid (n, t), prepare_for_update chooses a window
\* k >= 2 and emits exactly n share vectors of exactly k - 1 entries each, the
\* j-th entry of server s being its Shamir share of the j-th power of y, the
\* evaluation points being 1 .. n: a request without shares is never produced
C27_RequestShape ==
    (last.op = "prepare" /\ last.io[1] >= 1 /\ 2 <= last.t /\ last.t <= last.n) =>
        LET d == last.io[1]
            n == last.n
            k == WindowSize(d)
            y == users[last.id].id
        IN  /\ last.res = "Ok"
            /\ k >= 2
            /\ last.io[2] = n
            /\ \A s \in 1 .. n :
                  /\ last.io[2 + s] = k - 1
                  /\ last.io[2 + n + s] = FromInt(s)
            /\ \A j \in 1 .. (k - 1) : \A s \in last.t .. n :
                  RebuildWith(last.t, s,
                              [i \in 1 .. n |-> last.io[2 + n + i]],
                              [i \in 1 .. n |-> SentTo(i)[j]])
                      = Some(FPow(y, j))

C27_Witness ==
    /\ last.op = "prepare"
    /\ last.res = "Ok"
    /\ last.io[1] = 1
    /\ last.n = 4
    /\ last.t = 3
    /\ last.id = 1
    /\ last.io[3] = 2
    /\ SentTo(4) # SentTo(1)

\* C25: Server.update terminates for every request, the empty share vector
\* (k = 1) with 1 <= num_epochs <= deletions.len() included
C25_UpdateTerminates ==
    last.op = "server_update" => last.res # "hang"

RECURSIVE ProdOver(_, _)
\* the product of the elements of xs at the indices of S
ProdOver(xs, S) ==
    IF S = {} THEN 1
    ELSE LET i == CHOOSE i \in S : TRUE
         IN  FMul(xs[i], ProdOver(xs, S \ {i}))

RECURSIVE SumProducts(_, _)
\* the sum of these products over the index sets of F
SumProducts(xs, F) ==
    IF F = {} THEN 0
    ELSE LET S == CHOOSE S \in F : TRUE
         IN  FAdd(ProdOver(xs, S), SumProducts(xs, F \ {S}))

\* prod (x_j - x) with the shares put for the powers of x: the coefficient of
\* x^i is (-1)^i times the sum of the products of Len(xs) - i of the x_j
ProductOnShares(xs, y_shares) ==
    SumTo([i \in 1 .. (Len(xs) + 1) |->
             FMul(FMul(IF (i - 1) % 2 = 0 THEN 1 ELSE FNeg(1),
                       SumProducts(xs, { S \in SUBSET (1 .. Len(xs)) :
                                           Cardinality(S) = Len(xs) - (i - 1) })),
                  IF i = 1 THEN 1 ELSE y_shares[i - 1])],
          Len(xs) + 1)

LagrangeAtZero(points, i) ==
    ProdTo([j \in 1 .. Len(points) |->
              IF j = i THEN 1
              ELSE FMul(points[j], FInv(FSub(points[j], points[i])))],
           Len(points))

\* C29: for any t + 1 shares at distinct non-zero points x_0 .. x_t, the check
\* coefficients are the Lagrange coefficients at 0 of {x_t, x_1, .., x_(t-1)},
\* so shares on one polynomial of degree at most t - 1 pass the check and
\* rebuild to its value at 0
C29_AnyPoints ==
    last.op = "points" =>
        LET t == last.t
            xs == SubSeq(last.io, 4, 4 + t)
            check == SubSeq(last.io, 5 + t, 4 + 2 * t)
            shifted == [i \in 1 .. t |-> IF i = 1 THEN xs[t + 1] ELSE xs[i]]
        IN  /\ \A i \in 1 .. t : check[i] = LagrangeAtZero(shifted, i)
            /\ last.io[2] = 1
            /\ last.io[3] = last.io[1]

\* C30: from a server whose stored witnesses are valid for the latest
\* accumulator, delete(y) and quick_delete(y) agree on everything except the
\* stored witnesses of the survivors: both remove the witness of y, append
\* the same accumulator V * (y + alpha)^-1 and append y to the log; delete
\* rewrites every survivor's witness to one valid for the new accumulator,
\* quick_delete leaves them as they were
C30_DeletesAgree ==
    (\A z \in DOMAIN server.all_witnesses :
        Member(server, z, server.all_witnesses[z])) =>
        \A y \in UserIds :
            LET slow == ServerDelete(server, y)
                quick == ServerQuickDelete(server, y)
                rest == (DOMAIN server.all_witnesses) \ {y}
            IN  /\ slow.out = quick.out
                /\ [ slow.srv EXCEPT !.all_witnesses = << >> ]
                       = [ quick.srv EXCEPT !.all_witnesses = << >> ]
                /\ DOMAIN slow.srv.all_witnesses = DOMAIN quick.srv.all_witnesses
                /\ y \in DOMAIN server.all_witnesses =>
                      /\ DOMAIN slow.srv.all_witnesses = rest
                      /\ slow.srv.accumulators =
                            Append(server.accumulators,
                                   FMul(get_accumulator(server),
                                        FInv(FAdd(y, server.wit_secret_key))))
                      /\ slow.srv.deletions = Append(server.deletions, y)
                      /\ \A z \in rest :
                            /\ Member(slow.srv, z, slow.srv.all_witnesses[z])
                            /\ quick.srv.all_witnesses[z] = server.all_witnesses[z]

C30_Witness ==
    /\ DOMAIN server.all_witnesses = {0, 1}
    /\ \A z \in DOMAIN server.all_witnesses :
          Member(server, z, server.all_witnesses[z])
    /\ Len(server.deletions) >= 1
    /\ ServerDelete(server, 0).srv.all_witnesses[1] # server.all_witnesses[1]
    /\ ServerQuickDelete(server, 0).srv.all_witnesses[1] = server.all_witnesses[1]

====
